---- MODULE Spec2Model ----
(***************************************************************************)
(* Authentication and authorization core of the zione backend:             *)
(* internal/services/auth.go (AuthService), internal/models/user.go        *)
(* (User hooks, CheckPassword, HasRole), the Auth / RequireRole middleware *)
(* and the auth controller.                                                *)
(*                                                                         *)
(* Time is counted in ticks of half a second, so that the truncation of    *)
(* jwt.NumericDate to whole seconds is visible.                            *)
(***************************************************************************)
EXTENDS Integers, Sequences, FiniteSets, TLC

VARIABLES
    users,      \* rows of the users table
    nextID,     \* next auto-increment id of the users table
    reg,        \* per in-flight Register call: position and request
    now,        \* server wall clock, in ticks
    secret,     \* config.JWT.Secret of the running server
    issued,     \* the token response a client holds (at most one)
    req,        \* the gin.Context of the request in the middleware chain
    resp,       \* response of the API call made by the last step
    rt,         \* last sign / validate round trip of the token codec
    resume,     \* rows of the skills table and its next id
    logger,     \* the RequestLogger middleware, the console and the log files
    projects,   \* rows of the projects table and its next id
    categories, \* ids of the project_categories rows; the schema's constraint
    calls,      \* service calls between two of their statements
    page        \* the List request being answered: query and response

(* The portfolio content and the request log, apart from the accounts. *)
content == <<resume, logger, projects, categories, calls, page>>

vars == <<users, nextID, reg, now, secret, issued, req, resp, rt,
          resume, logger, projects, categories, calls, page>>

----------------------------------------------------------------------------
(* Bounds of the model *)

MaxTime == 6           \* last tick of the clock
MaxRoles == 2          \* longest role list given to RequireRole
MaxDay == 2            \* last calendar day the request log is followed to
MaxRequests == 6       \* requests the log is followed for
MaxSkills == 2         \* rows ever inserted into the skills table
MaxProjects == 3       \* rows ever inserted into the projects table

(* Scale of the clock and the configured token lifetimes, in ticks *)
TicksPerSecond == 2
AccessTokenExpiry == 2
RefreshTokenExpiry == 4

Procs == {1, 2}          \* Register calls in flight at once
Names == {"n"}
Emails == {"e1", "e2"}
Phones == {"p1", "p2"}
Secrets == {"k1", "k2"}

(* Plaintext passwords: text and length in bytes. *)
Passwords ==
    { [txt |-> "short", len |-> 5],
      [txt |-> "six", len |-> 6],
      [txt |-> "sixty", len |-> 60] }

RegisterRequests ==
    [Name : Names, Email : Emails, Phone : Phones, Password : Passwords]

LoginRequests == [Phone : Phones, Password : Passwords]

----------------------------------------------------------------------------
(* models/role.go, models/user.go *)

RoleAdmin == 1
RoleEditor == 2
RoleUser == 3

RoleIDs == {RoleAdmin, RoleEditor, RoleUser}

(* Name column of the seeded roles table, as loaded by Preload("Role"). *)
RoleName(id) ==
    CASE id = RoleAdmin -> "admin"
      [] id = RoleEditor -> "editor"
      [] id = RoleUser -> "user"
      [] OTHER -> ""

(* Length in bytes of a stored password column: a bcrypt digest has 60. *)
BcryptLen == 60

StoredLen(p) == IF p.hashed THEN BcryptLen ELSE p.pw.len

(* BeforeCreate: the password is hashed only when 0 < len < 60. *)
BeforeCreate(u) ==
    IF StoredLen(u.Password) > 0 /\ StoredLen(u.Password) < BcryptLen
    THEN [u EXCEPT !.Password = [hashed |-> TRUE, pw |-> u.Password.pw]]
    ELSE u

(* CheckPassword: bcrypt.CompareHashAndPassword succeeds only on a digest  *)
(* of the given plaintext; a column that is not a digest never matches.    *)
CheckPassword(u, password) ==
    u.Password.hashed /\ u.Password.pw = password

(* HasRole(roleName) of a user. *)
HasRole(u, roleName) ==
    CASE roleName = "admin" -> u.RoleID = 1
      [] roleName = "editor" -> (u.RoleID = 2 \/ u.RoleID = 1)
      [] roleName = "user" -> TRUE
      [] OTHER -> FALSE

----------------------------------------------------------------------------
(* Token codec: github.com/golang-jwt/jwt/v5 as used by auth.go *)

NoTime == -1

(* A time kept to the tick. *)
TruncateNot(t) == t

Truncate(t) == t - (t % TicksPerSecond)

(* jwt.NewNumericDate truncates to jwt.TimePrecision (one second). *)
NewNumericDate(t) == Truncate(t)

(* fmt.Sprintf("%d", id) *)
Sprintf(id) == ToString(id)

EmptyPayload == [x \in {} |-> 0]

(* A JSON member tagged omitempty: present unless the value is empty. *)
OmitEmpty(name, empty, value) ==
    IF empty THEN EmptyPayload ELSE [x \in {name} |-> value]

(* JSON members of jwt.RegisteredClaims: exp, iat and sub are omitempty,   *)
(* a NumericDate marshals truncated to the second.                         *)
MarshalRegistered(c) ==
    OmitEmpty("exp", c.ExpiresAt = NoTime, Truncate(c.ExpiresAt))
      @@ OmitEmpty("iat", c.IssuedAt = NoTime, Truncate(c.IssuedAt))
      @@ OmitEmpty("sub", c.Subject = "", c.Subject)

(* JSON object of a Claims value. *)
MarshalClaims(c) ==
    [user_id |-> c.UserID, role |-> c.Role] @@ MarshalRegistered(c)

(* JSON object of a RefreshTokenClaims value: no role member. *)
MarshalRefreshClaims(c) ==
    [user_id |-> c.UserID] @@ MarshalRegistered(c)

(* token.SignedString(key): the HS256 signature is the pair of the key and *)
(* the payload it was computed over.                                       *)
SignedString(payload, key) ==
    [form |-> "jwt", payload |-> payload,
     sig |-> [key |-> key, over |-> payload]]

(* json.Unmarshal into &Claims{} that loses the role member. *)
UnmarshalClaimsNoRole(p) ==
    [UserID |-> IF "user_id" \in DOMAIN p THEN p.user_id ELSE 0,
     Role |-> "",
     ExpiresAt |-> IF "exp" \in DOMAIN p THEN p.exp ELSE NoTime,
     IssuedAt |-> IF "iat" \in DOMAIN p THEN p.iat ELSE NoTime,
     Subject |-> IF "sub" \in DOMAIN p THEN p.sub ELSE ""]

(* json.Unmarshal into &Claims{}: absent members keep their zero value,    *)
(* unknown members are ignored.                                            *)
UnmarshalClaims(p) ==
    [UserID |-> IF "user_id" \in DOMAIN p THEN p.user_id ELSE 0,
     Role |-> IF "role" \in DOMAIN p THEN p.role ELSE "",
     ExpiresAt |-> IF "exp" \in DOMAIN p THEN p.exp ELSE NoTime,
     IssuedAt |-> IF "iat" \in DOMAIN p THEN p.iat ELSE NoTime,
     Subject |-> IF "sub" \in DOMAIN p THEN p.sub ELSE ""]

(* json.Unmarshal into &RefreshTokenClaims{}. *)
UnmarshalRefreshClaims(p) ==
    [UserID |-> IF "user_id" \in DOMAIN p THEN p.user_id ELSE 0,
     ExpiresAt |-> IF "exp" \in DOMAIN p THEN p.exp ELSE NoTime,
     IssuedAt |-> IF "iat" \in DOMAIN p THEN p.iat ELSE NoTime,
     Subject |-> IF "sub" \in DOMAIN p THEN p.sub ELSE ""]

(* A verification that only checks the signature covers the payload. *)
VerifyAnyKey(tok, key) == tok.sig.over = tok.payload

(* HMAC verification of the token under key. *)
VerifySignature(tok, key) ==
    tok.sig.key = key /\ tok.sig.over = tok.payload

(* An expiry check that still accepts at the instant of exp. *)
ExpiredAfter(exp, t) == exp # NoTime /\ t > exp

(* Validator.Validate of jwt/v5 with default options: only exp is checked, *)
(* as now.Before(exp) with no leeway; an absent exp passes.                *)
ExpiredAt(exp, t) == exp # NoTime /\ ~(t < exp)

NoClaims ==
    [UserID |-> 0, Role |-> "", ExpiresAt |-> NoTime, IssuedAt |-> NoTime,
     Subject |-> ""]

(* jwt.ParseWithClaims(tokenString, claims, keyfunc) at time t. *)
ParseWithClaims(tok, claims, key, t) ==
    IF tok.form # "jwt"
    THEN [ok |-> FALSE, err |-> "token is malformed", claims |-> NoClaims]
    ELSE IF ~VerifySignature(tok, key)
    THEN [ok |-> FALSE, err |-> "token signature is invalid",
          claims |-> NoClaims]
    ELSE IF ExpiredAt(claims.ExpiresAt, t)
    THEN [ok |-> FALSE, err |-> "token is expired", claims |-> NoClaims]
    ELSE [ok |-> TRUE, err |-> "", claims |-> claims]

(* A validation that also wants the user of the token in the table, with *)
(* the role of the token.                                                 *)
ValidateTokenWithLookup(tokenString, key, t) ==
    LET r == ParseWithClaims(tokenString,
                 IF tokenString.form = "jwt"
                 THEN UnmarshalClaims(tokenString.payload) ELSE NoClaims,
                 key, t)
    IN IF r.ok /\ ~\E u \in users : /\ u.ID = r.claims.UserID
                                    /\ RoleName(u.RoleID) = r.claims.Role
       THEN [ok |-> FALSE, err |-> "record not found", claims |-> NoClaims]
       ELSE r

(* AuthService.ValidateToken *)
ValidateToken(tokenString, key, t) ==
    ParseWithClaims(tokenString,
                    IF tokenString.form = "jwt"
                    THEN UnmarshalClaims(tokenString.payload) ELSE NoClaims,
                    key, t)

(* An access token that lives as long as a refresh token. *)
generateAccessTokenLong(user, key, t) ==
    LET expiresAt == t + RefreshTokenExpiry
        claims == [UserID |-> user.ID, Role |-> RoleName(user.RoleID),
                   ExpiresAt |-> NewNumericDate(expiresAt),
                   IssuedAt |-> NewNumericDate(t),
                   Subject |-> Sprintf(user.ID)]
    IN [token |-> SignedString(MarshalClaims(claims), key),
        expiresAt |-> expiresAt]

(* AuthService.generateAccessToken: the token and the expiresAt returned. *)
generateAccessToken(user, key, t) ==
    LET expiresAt == t + AccessTokenExpiry
        claims == [UserID |-> user.ID, Role |-> RoleName(user.RoleID),
                   ExpiresAt |-> NewNumericDate(expiresAt),
                   IssuedAt |-> NewNumericDate(t),
                   Subject |-> Sprintf(user.ID)]
    IN [token |-> SignedString(MarshalClaims(claims), key),
        expiresAt |-> expiresAt]

(* AuthService.generateRefreshToken *)
generateRefreshToken(user, key, t) ==
    LET expiresAt == t + RefreshTokenExpiry
        claims == [UserID |-> user.ID,
                   ExpiresAt |-> NewNumericDate(expiresAt),
                   IssuedAt |-> NewNumericDate(t),
                   Subject |-> Sprintf(user.ID)]
    IN SignedString(MarshalRefreshClaims(claims), key)

UserResponse(user) ==
    [ID |-> user.ID, Name |-> user.Name, Email |-> user.Email,
     Phone |-> user.Phone, Role |-> RoleName(user.RoleID)]

(* The TokenResponse built by Login, Register and RefreshToken. *)
TokenResponse(user, key, t) ==
    [AccessToken |-> generateAccessToken(user, key, t).token,
     RefreshToken |-> generateRefreshToken(user, key, t),
     ExpiresAt |-> generateAccessToken(user, key, t).expiresAt,
     User |-> UserResponse(user)]

----------------------------------------------------------------------------
(* HTTP responses (utils/response.go) *)

NoResp ==
    [op |-> "none", status |-> 0, message |-> "", error |-> "",
     tokens |-> {}, input |-> <<>>]

ErrorResponse(op, status, message, err) ==
    [op |-> op, status |-> status, message |-> message, error |-> err,
     tokens |-> {}, input |-> <<>>]

SuccessResponse(op, status, message, data) ==
    [op |-> op, status |-> status, message |-> message, error |-> "",
     tokens |-> {data}, input |-> <<>>]

----------------------------------------------------------------------------
(* The gin.Context of a request *)

NoReq ==
    [state |-> "none", header |-> <<>>, roles |-> <<>>, chain |-> <<>>,
     idx |-> 0, aborted |-> FALSE, status |-> 0, error |-> "",
     token |-> {}, ctx |-> {}, ran |-> {}, validated |-> {}]

(* The handler gin runs next for the request, if any. *)
Current(c) ==
    IF ~c.aborted /\ c.idx \in 1..Len(c.chain) THEN c.chain[c.idx]
    ELSE "none"

(* gin returns the context of a finished request to its pool. *)
Recycle(c) == IF Current(c) = "none" THEN NoReq ELSE c

----------------------------------------------------------------------------
(* The users table (database.DB) *)

ByPhone(U, phone) == {u \in U : u.Phone = phone}

ByID(U, id) == {u \in U : u.ID = id}

(* A count that wants both columns to match. *)
CountEmailAndPhone(U, email, phone) ==
    Cardinality({u \in U : u.Email = email /\ u.Phone = phone})

(* Count of the rows WHERE email = ? OR phone = ? *)
CountEmailOrPhone(U, email, phone) ==
    Cardinality({u \in U : u.Email = email \/ u.Phone = phone})

(* The unique indexes on users.email and users.phone (user.go, created by  *)
(* database.AutoMigrate) reject a row that repeats either column.          *)
UniqueViolation(U, u) ==
    \E v \in U : v.Email = u.Email \/ v.Phone = u.Phone

(* Create without the unique indexes. *)
CreateNoUnique(U, u) ==
    [ok |-> TRUE, err |-> "", users |-> U \cup {BeforeCreate(u)},
     row |-> BeforeCreate(u)]

(* database.DB.Create(&user): BeforeCreate hook, then the INSERT. *)
Create(U, u) ==
    LET row == BeforeCreate(u)
    IN IF UniqueViolation(U, row)
       THEN [ok |-> FALSE, err |-> "Error 1062: Duplicate entry",
             users |-> U, row |-> row]
       ELSE [ok |-> TRUE, err |-> "", users |-> U \cup {row}, row |-> row]

----------------------------------------------------------------------------
(* Request binding (struct tags of LoginRequest and RegisterRequest) *)

MinPasswordLen == 6

ValidLoginRequest(r) == r.Phone # "" /\ r.Password.len > 0

ValidRegisterRequest(r) ==
    /\ r.Name # "" /\ r.Email # "" /\ r.Phone # ""
    /\ r.Password.len >= MinPasswordLen

----------------------------------------------------------------------------
(* AuthService.Login and AuthController.Login *)

InvalidCredentials == "invalid phone or password"

(* Login that tells an unknown phone from a wrong password. *)
LoginServiceTelling(r, U, key, t) ==
    IF ByPhone(U, r.Phone) = {}
    THEN [ok |-> FALSE, err |-> "user not found", tokens |-> {}]
    ELSE LET user == CHOOSE u \in ByPhone(U, r.Phone) : TRUE
         IN IF ~CheckPassword(user, r.Password)
            THEN [ok |-> FALSE, err |-> InvalidCredentials, tokens |-> {}]
            ELSE [ok |-> TRUE, err |-> "",
                  tokens |-> {TokenResponse(user, key, t)}]

LoginService(r, U, key, t) ==
    IF ByPhone(U, r.Phone) = {}
    THEN [ok |-> FALSE, err |-> InvalidCredentials, tokens |-> {}]
    ELSE LET user == CHOOSE u \in ByPhone(U, r.Phone) : TRUE
         IN IF ~CheckPassword(user, r.Password)
            THEN [ok |-> FALSE, err |-> InvalidCredentials, tokens |-> {}]
            ELSE [ok |-> TRUE, err |-> "",
                  tokens |-> {TokenResponse(user, key, t)}]

LoginResponse(r, U, key, t) ==
    IF ~ValidLoginRequest(r)
    THEN [ErrorResponse("login", 422, "Validation error", "binding")
          EXCEPT !.input = r]
    ELSE LET res == LoginService(r, U, key, t)
         IN IF res.ok
            THEN [SuccessResponse("login", 200,
                                  "User logged in successfully",
                                  CHOOSE d \in res.tokens : TRUE)
                  EXCEPT !.input = r]
            ELSE [ErrorResponse("login", 401, res.err, "")
                  EXCEPT !.input = r]

Login(r) ==
    /\ resp' = LoginResponse(r, users, secret, now)
    /\ req' = Recycle(req)
    /\ UNCHANGED <<users, nextID, reg, now, secret, issued, rt, content>>

----------------------------------------------------------------------------
(* AuthService.Register and AuthController.Register.  The existence check  *)
(* and the insert are two statements against the database; calls of        *)
(* different requests interleave between them.                             *)

IdleReg == [pc |-> "idle", uid |-> 0, input |-> <<>>]

(* What a finished call leaves behind: the user it created, if any. *)
Returned(r, uid) ==
    [pc |-> IF uid = 0 THEN "idle" ELSE "ok", uid |-> uid,
     input |-> IF uid = 0 THEN <<>>
               ELSE [Email |-> r.Email, Phone |-> r.Phone]]

(* A new user that gets the admin role. *)
NewUserAsAdmin(r, id) ==
    [ID |-> id, Name |-> r.Name, Email |-> r.Email, Phone |-> r.Phone,
     Password |-> [hashed |-> FALSE, pw |-> r.Password],
     RoleID |-> RoleAdmin]

(* The models.User value Register hands to Create (auth.go:128-134). *)
NewUser(r, id) ==
    [ID |-> id, Name |-> r.Name, Email |-> r.Email, Phone |-> r.Phone,
     Password |-> [hashed |-> FALSE, pw |-> r.Password],
     RoleID |-> RoleUser]

(* Binding and the duplicate check of Register (auth.go:117-125). *)
RegisterCheck(p, r) ==
    /\ reg[p].pc # "checked"
    /\ IF ~ValidRegisterRequest(r)
       THEN /\ resp' = [ErrorResponse("register", 422, "Validation error",
                                      "binding") EXCEPT !.input = r]
            /\ reg' = [reg EXCEPT ![p] = Returned(r, 0)]
       ELSE IF CountEmailOrPhone(users, r.Email, r.Phone) > 0
       THEN /\ resp' = [ErrorResponse("register", 400,
                           "Failed to register user",
                           "user with this email or phone already exists")
                        EXCEPT !.input = r]
            /\ reg' = [reg EXCEPT ![p] = Returned(r, 0)]
       ELSE /\ resp' = NoResp
            /\ reg' = [reg EXCEPT ![p] =
                         [pc |-> "checked", uid |-> 0, input |-> r]]
    /\ UNCHANGED <<users, nextID, now, secret, issued, req, rt, content>>

(* The insert, the reload of the role and the tokens (auth.go:127-169). *)
RegisterInsert(p) ==
    /\ reg[p].pc = "checked"
    /\ LET r == reg[p].input
           user == NewUser(r, nextID)
           res == Create(users, user)
       IN IF ~res.ok
          THEN /\ resp' = [ErrorResponse("register", 400,
                              "Failed to register user", res.err)
                           EXCEPT !.input = r]
               /\ reg' = [reg EXCEPT ![p] = Returned(r, 0)]
               /\ UNCHANGED <<users, nextID>>
          ELSE /\ users' = res.users
               /\ nextID' = nextID + 1
               /\ resp' = [SuccessResponse("register", 201,
                              "User registered successfully",
                              TokenResponse(res.row, secret, now))
                           EXCEPT !.input = r]
               /\ reg' = [reg EXCEPT ![p] = Returned(r, res.row.ID)]
    /\ UNCHANGED <<now, secret, issued, req, rt, content>>

(* A role assigned to a user outside the API (users.role_id). *)
SetRole(id, role) ==
    /\ \E u \in users : u.ID = id /\ u.RoleID # role
    /\ users' = {IF u.ID = id THEN [u EXCEPT !.RoleID = role] ELSE u :
                   u \in users}
    /\ resp' = NoResp
    /\ UNCHANGED <<nextID, reg, now, secret, issued, req, rt, content>>

----------------------------------------------------------------------------
(* AuthService.RefreshToken and AuthController.RefreshToken *)

(* A refresh that parses without the validation of the claims. *)
RefreshTokenServiceNoExpiry(tok, U, key, t) ==
    LET parsed == ParseWithClaims(tok,
                      IF tok.form = "jwt"
                      THEN UnmarshalRefreshClaims(tok.payload)
                      ELSE NoClaims, key, 0)
    IN IF ~parsed.ok
       THEN [ok |-> FALSE, err |-> parsed.err, tokens |-> {}]
       ELSE IF ByID(U, parsed.claims.UserID) = {}
       THEN [ok |-> FALSE, err |-> "record not found", tokens |-> {}]
       ELSE LET user == CHOOSE u \in ByID(U, parsed.claims.UserID) : TRUE
            IN [ok |-> TRUE, err |-> "",
                tokens |-> {TokenResponse(user, key, t)}]

RefreshTokenService(tok, U, key, t) ==
    LET parsed == ParseWithClaims(tok,
                      IF tok.form = "jwt"
                      THEN UnmarshalRefreshClaims(tok.payload)
                      ELSE NoClaims, key, t)
    IN IF ~parsed.ok
       THEN [ok |-> FALSE, err |-> parsed.err, tokens |-> {}]
       ELSE IF ByID(U, parsed.claims.UserID) = {}
       THEN [ok |-> FALSE, err |-> "record not found", tokens |-> {}]
       ELSE LET user == CHOOSE u \in ByID(U, parsed.claims.UserID) : TRUE
            IN [ok |-> TRUE, err |-> "",
                tokens |-> {TokenResponse(user, key, t)}]

(* body is the set of values of the "refresh_token" member: empty when the *)
(* member is absent.                                                       *)
RefreshTokenResponse(body, U, key, t) ==
    IF body = {}
    THEN [ErrorResponse("refresh", 400, "Refresh token is required", "")
          EXCEPT !.input = body]
    ELSE LET res == RefreshTokenService(CHOOSE x \in body : TRUE, U, key, t)
         IN IF res.ok
            THEN [SuccessResponse("refresh", 200,
                                  "Token refreshed successfully",
                                  CHOOSE d \in res.tokens : TRUE)
                  EXCEPT !.input = body]
            ELSE [ErrorResponse("refresh", 401, res.err, "")
                  EXCEPT !.input = body]

RefreshToken(body) ==
    /\ resp' = RefreshTokenResponse(body, users, secret, now)
    /\ req' = Recycle(req)
    /\ UNCHANGED <<users, nextID, reg, now, secret, issued, rt, content>>

----------------------------------------------------------------------------
(* Clients, the clock and the configuration *)

(* The client keeps the token pair it was just given. *)
Keep ==
    /\ resp.tokens # {}
    /\ issued' = resp.tokens
    /\ resp' = NoResp
    /\ req' = Recycle(req)
    /\ UNCHANGED <<users, nextID, reg, now, secret, rt, content>>

Tick ==
    /\ now < MaxTime
    /\ now' = now + 1
    /\ resp' = NoResp
    /\ req' = Recycle(req)
    /\ UNCHANGED <<users, nextID, reg, secret, issued, rt, content>>

(* The server restarted with another JWT_SECRET (LoadConfig): requests in  *)
(* flight are gone.                                                        *)
RotateSecret(k) ==
    /\ k # secret
    /\ secret' = k
    /\ req' = NoReq
    /\ resp' = NoResp
    /\ UNCHANGED <<users, nextID, reg, now, issued, rt, content>>

----------------------------------------------------------------------------
(* Tokens a client can present *)

AttackerKey == "evil"

(* A string that is not three dot-separated segments. *)
Garbage ==
    [form |-> "garbage", payload |-> EmptyPayload,
     sig |-> [key |-> "", over |-> EmptyPayload]]

AdminPayload ==
    [user_id |-> 1, role |-> "admin", exp |-> MaxTime + TicksPerSecond,
     iat |-> 0, sub |-> "1"]

(* Admin claims signed with a key that is not the server's. *)
Forged == SignedString(AdminPayload, AttackerKey)

(* A token of the server with its payload replaced. *)
Tampered(tok) == [tok EXCEPT !.payload = AdminPayload]

HeldTokens ==
    {d.AccessToken : d \in issued} \cup {d.RefreshToken : d \in issued}

Presentable ==
    HeldTokens \cup {Tampered(d.AccessToken) : d \in issued}
      \cup {Forged, Garbage}

(* Authorization headers, as the parts strings.Split(h, " ") gives. *)
Headers ==
    {<<>>, <<"Bearer">>, <<"Bearer", Garbage, "x">>}
      \cup {<<"Basic", tok>> : tok \in {Garbage}}
      \cup {<<"Bearer", tok>> : tok \in Presentable}
      \cup {<<"bearer", tok>> : tok \in HeldTokens}

ToLower(str) == IF str = "Bearer" THEN "bearer" ELSE str

----------------------------------------------------------------------------
(* middleware.Auth, middleware.RequireRole and the gin handler chain *)

(* The chain of the protected routes of the project, blog and category     *)
(* controllers: Auth, RequireRole("admin", "editor"), the handler.         *)
ProtectedChain == <<"Auth", "RequireRole", "handler">>

AdminEditor == <<"admin", "editor">>

(* c.JSON(status, error) without c.Abort(): gin goes on with the chain. *)
RespondWithoutAbort(c, status, err) ==
    [c EXCEPT !.status = status, !.error = err, !.idx = @ + 1]

(* c.JSON(status, error) followed by c.Abort(). *)
AbortWith(c, status, err) ==
    [c EXCEPT !.status = status, !.error = err, !.aborted = TRUE]

NewRequest(h, roles) ==
    /\ Current(req) = "none"
    /\ req' = [NoReq EXCEPT !.state = "Unauthenticated", !.header = h,
                            !.roles = roles, !.chain = ProtectedChain,
                            !.idx = 1]
    /\ resp' = NoResp
    /\ UNCHANGED <<users, nextID, reg, now, secret, issued, rt, content>>

(* An extraction that takes any two-part header, whatever its scheme. *)
AuthExtractAnyScheme ==
    /\ req.state = "Unauthenticated"
    /\ Current(req) = "Auth"
    /\ req' =
         IF req.header = <<>>
         THEN [AbortWith(req, 401, "authorization header is required")
               EXCEPT !.state = "Rejected"]
         ELSE IF Len(req.header) # 2
         THEN [AbortWith(req, 401,
                   "authorization header format must be Bearer {token}")
               EXCEPT !.state = "Rejected"]
         ELSE [req EXCEPT !.state = "Validating",
                          !.token = {req.header[2]}]
    /\ resp' = NoResp
    /\ UNCHANGED <<users, nextID, reg, now, secret, issued, rt, content>>

(* Auth, up to the extraction of the token (part_006:75-91). *)
AuthExtract ==
    /\ req.state = "Unauthenticated"
    /\ Current(req) = "Auth"
    /\ req' =
         IF req.header = <<>>
         THEN [AbortWith(req, 401, "authorization header is required")
               EXCEPT !.state = "Rejected"]
         ELSE IF Len(req.header) # 2 \/ ToLower(req.header[1]) # "bearer"
         THEN [AbortWith(req, 401,
                   "authorization header format must be Bearer {token}")
               EXCEPT !.state = "Rejected"]
         ELSE [req EXCEPT !.state = "Validating",
                          !.token = {req.header[2]}]
    /\ resp' = NoResp
    /\ UNCHANGED <<users, nextID, reg, now, secret, issued, rt, content>>

(* Auth, from ValidateToken to c.Next() (part_006:93-106). *)
AuthValidate ==
    /\ req.state = "Validating"
    /\ Current(req) = "Auth"
    /\ LET tok == CHOOSE x \in req.token : TRUE
           v == ValidateToken(tok, secret, now)
       IN req' =
            IF ~v.ok
            THEN [AbortWith(req, 401, "invalid or expired token")
                  EXCEPT !.state = "Rejected",
                         !.validated = {[ok |-> FALSE, at |-> now,
                                         claims |-> v.claims]}]
            ELSE [req EXCEPT !.state = "Authenticated",
                             !.ctx = {[userID |-> v.claims.UserID,
                                       userRole |-> v.claims.Role]},
                             !.validated = {[ok |-> TRUE, at |-> now,
                                             claims |-> v.claims]},
                             !.idx = @ + 1]
    /\ resp' = NoResp
    /\ UNCHANGED <<users, nextID, reg, now, secret, issued, rt, content>>

(* The loop of RequireRole over its roles. *)
RoleAdmitted(roles, role) ==
    \E i \in 1..Len(roles) : role = "admin" \/ role = roles[i]

RequireRole ==
    /\ Current(req) = "RequireRole"
    /\ req' =
         IF req.ctx = {}
         THEN [AbortWith(req, 401, "user not authenticated")
               EXCEPT !.ran = @ \cup {"RequireRole"}]
         ELSE LET role == (CHOOSE c \in req.ctx : TRUE).userRole
              IN IF RoleAdmitted(req.roles, role)
                 THEN [req EXCEPT !.idx = @ + 1,
                                  !.ran = @ \cup {"RequireRole"}]
                 ELSE [AbortWith(req, 403, "insufficient permissions")
                       EXCEPT !.ran = @ \cup {"RequireRole"}]
    /\ resp' = NoResp
    /\ UNCHANGED <<users, nextID, reg, now, secret, issued, rt, content>>

(* The resource handler at the end of the chain. *)
Handler ==
    /\ Current(req) = "handler"
    /\ req' = [req EXCEPT !.idx = @ + 1, !.status = 200,
                          !.ran = @ \cup {"handler"}]
    /\ resp' = NoResp
    /\ UNCHANGED <<users, nextID, reg, now, secret, issued, rt, content>>

----------------------------------------------------------------------------
NoRoundTrip == [done |-> FALSE]

(* Days the log is followed over, and requests it is followed for. *)
Days == 0..MaxDay

NoCalls == [del |-> 0]

NoPage == [done |-> FALSE]

(* Empty tables, and the RequestLogger as main left it: the file of the    *)
(* day of the start is the one in the writer.                              *)
NewLogger ==
    [file |-> 0, closed |-> TRUE, day |-> 0, console |-> 0,
     files |-> [d \in Days |-> 0], handled |-> [d \in Days |-> 0]]

ContentInit ==
    /\ resume = [rows |-> {}, next |-> 1]
    /\ logger = NewLogger
    /\ projects = [rows |-> {}, next |-> 1]
    /\ categories = [ids |-> {}, constrained |-> TRUE]
    /\ calls = NoCalls
    /\ page = NoPage

Init ==
    /\ users = {}
    /\ nextID = 1
    /\ reg = [p \in Procs |-> IdleReg]
    /\ now = 0
    /\ secret = "k1"
    /\ issued = {}
    /\ req = NoReq
    /\ resp = NoResp
    /\ rt = NoRoundTrip
    /\ ContentInit

(* A user registered earlier, with the role given to it since. *)
SeedUser(role) ==
    [ID |-> 1, Name |-> "n", Email |-> "e1", Phone |-> "p1",
     Password |-> [hashed |-> TRUE, pw |-> [txt |-> "six", len |-> 6]],
     RoleID |-> role]

InitToken ==
    /\ \E role \in RoleIDs : users = {SeedUser(role)}
    /\ nextID = 2
    /\ reg = [p \in Procs |-> IdleReg]
    /\ now = 0
    /\ secret = "k1"
    /\ issued = {}
    /\ req = NoReq
    /\ resp = NoResp
    /\ rt = NoRoundTrip
    /\ ContentInit

(* Tokens over time: issue, keep, present, refresh, rotate the secret. *)
NextToken ==
    \/ Tick
    \/ \E k \in Secrets : RotateSecret(k)
    \/ \E r \in LoginRequests : Login(r)
    \/ \E body \in {{}} \cup {{tok} : tok \in Presentable} :
         RefreshToken(body)
    \/ Keep
    \/ \E h \in Headers : NewRequest(h, AdminEditor)
    \/ AuthExtract
    \/ AuthValidate
    \/ RequireRole
    \/ Handler

SpecToken == InitToken /\ [][NextToken]_vars

(* Accounts: registration, login and role changes. *)
Next ==
    \/ \E p \in Procs, r \in RegisterRequests : RegisterCheck(p, r)
    \/ \E p \in Procs : RegisterInsert(p)
    \/ \E r \in LoginRequests : Login(r)
    \/ \E u \in users, role \in RoleIDs : SetRole(u.ID, role)

Spec == Init /\ [][Next]_vars

(* Role lists a route can hand to RequireRole. *)
RoleNames == {"admin", "editor", "user"}

RoleLists == UNION {[1..n -> RoleNames] : n \in 0..MaxRoles}

(* A client that logged in at start-up. *)
InitRole ==
    /\ \E role \in RoleIDs :
         /\ users = {SeedUser(role)}
         /\ issued = {TokenResponse(SeedUser(role), "k1", 0)}
    /\ nextID = 2
    /\ reg = [p \in Procs |-> IdleReg]
    /\ now = 0
    /\ secret = "k1"
    /\ req = NoReq
    /\ resp = NoResp
    /\ rt = NoRoundTrip
    /\ ContentInit

(* Requests through Auth and RequireRole(roles...) for any role list. *)
NextRole ==
    \/ \E tok \in HeldTokens, roles \in RoleLists :
         NewRequest(<<"Bearer", tok>>, roles)
    \/ AuthExtract
    \/ AuthValidate
    \/ RequireRole
    \/ Handler

SpecRole == InitRole /\ [][NextRole]_vars

----------------------------------------------------------------------------
(* Token codec round trip (TestValidateToken) *)

UserIDs == {0, 1, 2}

(* The fields a caller gives the claims: the times before NewNumericDate. *)
ClaimInputs ==
    [id : UserIDs, role : RoleNames \cup {""},
     exp : 0..(MaxTime + TicksPerSecond), iat : 0..MaxTime,
     sub : {"", "1"}]

InitCodec ==
    /\ users = {}
    /\ nextID = 1
    /\ reg = [p \in Procs |-> IdleReg]
    /\ now = 0
    /\ secret = "k1"
    /\ issued = {}
    /\ req = NoReq
    /\ resp = NoResp
    /\ \E in \in ClaimInputs : rt = [done |-> FALSE, input |-> in]
    /\ ContentInit

(* Claims built with jwt.NewNumericDate, signed with the server secret and *)
(* handed to ValidateToken.                                                *)
SignAndValidate ==
    /\ LET in == rt.input
           claims == [UserID |-> in.id, Role |-> in.role,
                      ExpiresAt |-> NewNumericDate(in.exp),
                      IssuedAt |-> NewNumericDate(in.iat),
                      Subject |-> in.sub]
           tokenString == SignedString(MarshalClaims(claims), secret)
       IN rt' = [done |-> TRUE, input |-> in, claims |-> claims,
                 at |-> now,
                 result |-> ValidateToken(tokenString, secret, now)]
    /\ UNCHANGED <<users, nextID, reg, now, secret, issued, req, resp,
                   content>>

NextCodec ==
    \/ Tick
    \/ SignAndValidate

SpecCodec == InitCodec /\ [][NextCodec]_vars

----------------------------------------------------------------------------
(* Claims about accounts *)

(* The plaintext a user registered with. *)
RegisteredPassword(u) == u.Password.pw

(* C1: a login with the phone and the password a stored user registered    *)
(* with succeeds, and the access token it returns validates to that user's *)
(* id and current role.                                                    *)
C1_LoginAfterRegister ==
    resp.op = "login" =>
        \A u \in users :
            (u.Phone = resp.input.Phone
               /\ RegisteredPassword(u) = resp.input.Password) =>
                /\ resp.status = 200
                /\ resp.tokens # {}
                /\ \A d \in resp.tokens :
                     LET v == ValidateToken(d.AccessToken, secret, now)
                     IN /\ v.ok
                        /\ v.claims.UserID = u.ID
                        /\ v.claims.Role = RoleName(u.RoleID)

UnknownPhone == ByPhone(users, resp.input.Phone) = {}

WrongPassword ==
    \E u \in users : /\ u.Phone = resp.input.Phone
                     /\ RegisteredPassword(u) # resp.input.Password

(* C2: a login with an unknown phone and a login with a wrong password get *)
(* the same response, 401 with the same message and no token, and no login *)
(* changes the users table.                                                *)
C2_SameLoginError ==
    /\ [](resp.op = "login" /\ ValidLoginRequest(resp.input)
            /\ (UnknownPhone \/ WrongPassword)
          => [resp EXCEPT !.input = <<>>]
               = ErrorResponse("login", 401, InvalidCredentials, ""))
    /\ [][resp'.op = "login" => users' = users]_vars

C2_Witness ==
    /\ resp.op = "login" /\ WrongPassword /\ resp.status = 401
    /\ \E u \in users : u.Phone = resp.input.Phone /\ u.Password.hashed

Conflict(a, b) == a.Email = b.Email \/ a.Phone = b.Phone

(* C10: the users table never holds two rows with the same email or the    *)
(* same phone, and two Register calls with the same email or phone never   *)
(* both return a user that is in the table.                                *)
C10_UniqueEmailPhone ==
    /\ \A u, v \in users :
         u # v => u.Email # v.Email /\ u.Phone # v.Phone /\ u.ID # v.ID
    /\ \A p, q \in Procs :
         (p # q /\ reg[p].pc = "ok" /\ reg[q].pc = "ok"
            /\ Conflict(reg[p].input, reg[q].input)) =>
             /\ reg[p].uid # reg[q].uid
             /\ ~(ByID(users, reg[p].uid) # {} /\ ByID(users, reg[q].uid) # {})

(* Two calls passed the existence check; the insert of the second failed. *)
C10_Witness ==
    /\ resp.op = "register"
    /\ resp.error = "Error 1062: Duplicate entry"
    /\ \E p \in Procs : reg[p].pc = "ok" /\ Conflict(reg[p].input, resp.input)

----------------------------------------------------------------------------
(* Claims about tokens and the Auth gate *)

(* The token the request in the chain presented, with a valid signature. *)
PresentedSigned(tok) ==
    req.token = {tok} /\ tok.form = "jwt" /\ VerifySignature(tok, secret)

(* validate rejects every correctly signed token whose exp is at or before *)
(* the time of the validation.                                             *)
ExpiredRejected ==
    \A tok \in req.token, v \in req.validated :
        (tok.form = "jwt" /\ VerifySignature(tok, secret)
           /\ UnmarshalClaims(tok.payload).ExpiresAt # NoTime
           /\ UnmarshalClaims(tok.payload).ExpiresAt <= v.at) => ~v.ok

(* C4 as stated: expired tokens are rejected, and an access token minted   *)
(* at t with lifetime d (expiresAt = t + d in its response) is accepted at *)
(* every time before t + d and rejected from t + d on.                     *)
C4_AcceptedUntilLifetime ==
    /\ ExpiredRejected
    /\ \A d \in issued, v \in req.validated :
         PresentedSigned(d.AccessToken) => (v.ok <=> v.at < d.ExpiresAt)

(* C4 amended: expired tokens are rejected, and an access token minted at  *)
(* t with lifetime d is accepted at every time before t + d truncated to   *)
(* the whole second and rejected from then on.                             *)
C4_AcceptedUntilTruncatedExpiry ==
    /\ ExpiredRejected
    /\ \A d \in issued, v \in req.validated :
         PresentedSigned(d.AccessToken) =>
             (v.ok <=> v.at < Truncate(d.ExpiresAt))

(* An access token rejected inside its stated lifetime. *)
C4_Witness ==
    \E d \in issued, v \in req.validated :
        /\ PresentedSigned(d.AccessToken)
        /\ ~v.ok
        /\ Truncate(d.ExpiresAt) <= v.at /\ v.at < d.ExpiresAt

(* C5: validate and refresh reject every token whose signature was made    *)
(* with a secret other than the server's current one, so tokens minted     *)
(* before a change of the secret are rejected after it.                    *)
C5_OtherSecretRejected ==
    /\ \A tok \in req.token, v \in req.validated :
         tok.sig.key # secret => ~v.ok /\ req.state = "Rejected"
    /\ resp.op = "refresh" =>
         \A tok \in resp.input :
             tok.sig.key # secret => resp.status = 401 /\ resp.tokens = {}

(* An unexpired access token of the old secret, rejected after rotation. *)
C5_Witness ==
    \E d \in issued, v \in req.validated :
        /\ req.token = {d.AccessToken}
        /\ d.AccessToken.sig.key # secret
        /\ v.at < Truncate(d.ExpiresAt)
        /\ ~v.ok /\ req.status = 401

(* One step of a request through the states of the Auth gate. *)
AuthTransition ==
    \/ req' = req
    \/ req' = NoReq
    \/ req'.state = "Unauthenticated" /\ req'.ran = {} /\ req'.ctx = {}
    \/ req.state = "Unauthenticated" /\ req'.state \in {"Validating", "Rejected"}
    \/ req.state = "Validating" /\ req'.state \in {"Authenticated", "Rejected"}
    \/ req.state = "Authenticated" /\ req'.state = "Authenticated"

(* C8: a request goes Unauthenticated -> Validating -> Authenticated or    *)
(* Rejected; the role gate and the handler run only after validate         *)
(* accepted the bearer token, with userID and userRole equal to the        *)
(* token's claims; a rejected request has status 401, stays rejected and   *)
(* no later middleware or handler runs for it.                             *)
C8_AuthStateMachine ==
    /\ [](req.ran # {} =>
            /\ req.state = "Authenticated"
            /\ \A tok \in req.token, v \in req.validated :
                 /\ v.ok
                 /\ ValidateToken(tok, secret, v.at).ok
                 /\ req.ctx = {[userID |-> UnmarshalClaims(tok.payload).UserID,
                                userRole |-> UnmarshalClaims(tok.payload).Role]}
            /\ req.validated # {} /\ req.token # {})
    /\ [](req.state = "Rejected" =>
            req.status = 401 /\ req.ran = {} /\ req.ctx = {}
              /\ Current(req) = "none")
    /\ [][AuthTransition]_vars

(* A request that passed both gates and reached its handler. *)
C8_Witness ==
    /\ "handler" \in req.ran /\ req.status = 200
    /\ req.state = "Authenticated"

(* C9: a refresh token presented as bearer token is not accepted by        *)
(* validate, the request never becomes Authenticated and nothing is        *)
(* attached to its context.                                                *)
C9_RefreshNeverAuthenticates ==
    \A d \in issued :
        req.token = {d.RefreshToken} =>
            /\ req.state # "Authenticated"
            /\ req.ctx = {}
            /\ \A v \in req.validated : ~v.ok

----------------------------------------------------------------------------
(* Claims about the codec and the role gate *)

(* C3: claims with an expiry in the future, signed with the server secret, *)
(* validate to claims with the same user id, role, expiry, issued-at and   *)
(* subject.                                                                *)
C3_RoundTrip ==
    (rt.done /\ rt.claims.ExpiresAt > rt.at) =>
        /\ rt.result.ok
        /\ rt.result.claims.UserID = rt.claims.UserID
        /\ rt.result.claims.Role = rt.claims.Role
        /\ rt.result.claims.ExpiresAt = rt.claims.ExpiresAt
        /\ rt.result.claims.IssuedAt = rt.claims.IssuedAt
        /\ rt.result.claims.Subject = rt.claims.Subject

C3_Witness ==
    /\ rt.done /\ rt.claims.ExpiresAt > rt.at /\ rt.at > 0
    /\ rt.result.ok
    /\ rt.result.claims.Role = "editor" /\ rt.result.claims.UserID = 2
    /\ rt.result.claims.Subject = "1"

(* The role attached to the request by Auth. *)
AttachedRole == (CHOOSE c \in req.ctx : TRUE).userRole

Allowed(roles, role) ==
    role = "admin" \/ \E i \in 1..Len(roles) : roles[i] = role

(* C6: RequireRole(allowed...) admits the request iff the attached role is *)
(* "admin" or one of allowed, for every role and every list, the empty     *)
(* list included; a rejected request gets 403 "insufficient permissions"   *)
(* and its handler does not run.                                           *)
C6_RequireRoleIff ==
    ("RequireRole" \in req.ran /\ req.ctx # {}) =>
        IF Allowed(req.roles, AttachedRole)
        THEN ~req.aborted
        ELSE /\ req.aborted
             /\ req.status = 403 /\ req.error = "insufficient permissions"
             /\ "handler" \notin req.ran

EditorUser == SeedUser(RoleEditor)

PlainUser == SeedUser(RoleUser)

AdminUser == SeedUser(RoleAdmin)

(* C7: for every required role r, a check for r that a user passes is      *)
(* passed by an editor, one that an editor passes is passed by an admin,   *)
(* and an editor does not pass a check for admin only; for RequireRole(r)  *)
(* and for HasRole(r).                                                     *)
C7_RoleHierarchy ==
    /\ ("RequireRole" \in req.ran /\ req.ctx # {} /\ Len(req.roles) = 1) =>
         /\ (AttachedRole = "editor" /\ RoleAdmitted(req.roles, "user"))
              => ~req.aborted
         /\ (AttachedRole = "admin" /\ RoleAdmitted(req.roles, "editor"))
              => ~req.aborted
         /\ (AttachedRole = "editor" /\ req.roles = <<"admin">>)
              => req.aborted
    /\ \A r \in RoleNames :
         /\ HasRole(PlainUser, r) => HasRole(EditorUser, r)
         /\ HasRole(EditorUser, r) => HasRole(AdminUser, r)
    /\ ~HasRole(EditorUser, "admin")

----------------------------------------------------------------------------
(* Claims about registration *)

DuplicateUser == "user with this email or phone already exists"

(* The step is a whole Register call: no call that had passed the check    *)
(* moved.                                                                  *)
RegisterFromStart ==
    /\ resp'.op = "register"
    /\ \A p \in Procs : reg[p].pc = "checked" => reg'[p] = reg[p]

(* C11: a register call whose email or whose phone is that of a user in    *)
(* the table gets the duplicate-user error and no tokens, never gets to    *)
(* the insert, and leaves the table as it was.                             *)
C11_DuplicateRejected ==
    /\ [][(RegisterFromStart /\ ValidRegisterRequest(resp'.input)
             /\ \E u \in users : Conflict(u, resp'.input))
          => /\ resp'.status = 400
             /\ resp'.error = DuplicateUser
             /\ resp'.tokens = {}
             /\ users' = users]_vars
    /\ [][\A p \in Procs :
            (reg[p].pc # "checked" /\ reg'[p].pc = "checked")
              => ~\E u \in users : Conflict(u, reg'[p].input)]_vars

(* Rejected for the email alone: the phone is new. *)
C11_Witness ==
    /\ resp.op = "register" /\ resp.error = DuplicateUser
    /\ \E u \in users : u.Email = resp.input.Email
    /\ \A u \in users : u.Phone # resp.input.Phone

(* C12: a successful register adds exactly one user, with role "user",     *)
(* and returns non-empty tokens whose access claims carry the id of that   *)
(* user and the role "user".                                               *)
C12_RegisterDefaultRole ==
    [][(resp'.op = "register" /\ resp'.status = 201) =>
         \E u \in users' :
            /\ u \notin users
            /\ users' = users \cup {u}
            /\ ByID(users, u.ID) = {}
            /\ RoleName(u.RoleID) = "user"
            /\ resp'.tokens # {}
            /\ \A d \in resp'.tokens :
                 LET v == ValidateToken(d.AccessToken, secret', now')
                 IN /\ v.ok
                    /\ v.claims.UserID = u.ID
                    /\ v.claims.Role = "user"
                    /\ d.RefreshToken.form = "jwt"
                    /\ UnmarshalRefreshClaims(d.RefreshToken.payload).UserID
                         = u.ID
                    /\ d.User.ID = u.ID /\ d.User.Role = "user"]_vars

(* A second user registered while the first one has been made admin. *)
C12_Witness ==
    /\ resp.op = "register" /\ resp.status = 201
    /\ \E u \in users : u.RoleID = RoleAdmin
    /\ \E d \in resp.tokens, u \in users :
         u.ID = d.User.ID /\ u.RoleID = RoleUser /\ u.ID = 2

----------------------------------------------------------------------------
(* A client that registers, keeps the tokens of the registration and logs  *)
(* in while the clock runs.                                                *)

KeepRegistered ==
    /\ resp.op = "register"
    /\ Keep

NextSession ==
    \/ \E r \in RegisterRequests : RegisterCheck(1, r)
    \/ RegisterInsert(1)
    \/ KeepRegistered
    \/ \E r \in LoginRequests : Login(r)
    \/ Tick

SpecSession == Init /\ [][NextSession]_vars

(* The time at which a token pair was built. *)
BuiltAt(d) == d.ExpiresAt - AccessTokenExpiry

(* A login that succeeded for the user whose registration returned d. *)
LoginOfRegistered(d) ==
    /\ resp.op = "login" /\ resp.status = 200
    /\ \A t \in resp.tokens : t.User.ID = d.User.ID

SameIdentity(t, d) ==
    /\ UnmarshalClaims(t.AccessToken.payload).UserID
         = UnmarshalClaims(d.AccessToken.payload).UserID
    /\ UnmarshalClaims(t.AccessToken.payload).Role
         = UnmarshalClaims(d.AccessToken.payload).Role

(* C13 as stated: the access token of a login after the registration is    *)
(* never the access token the registration returned, also within the same  *)
(* clock second, and carries the same user id and role.                    *)
C13_LoginTokenDiffers ==
    \A d \in issued : LoginOfRegistered(d) =>
       \A t \in resp.tokens :
          /\ t.AccessToken # d.AccessToken
          /\ SameIdentity(t, d)

(* C13 amended: the two access tokens carry the same user id and role, and *)
(* they differ exactly when the login falls into a later clock second than *)
(* the registration.                                                       *)
C13_LoginTokenDiffersAcrossSeconds ==
    \A d \in issued : LoginOfRegistered(d) =>
       \A t \in resp.tokens :
          /\ SameIdentity(t, d)
          /\ (t.AccessToken # d.AccessToken)
               <=> (now \div TicksPerSecond
                      > BuiltAt(d) \div TicksPerSecond)

(* A login half a second after the registration, in the same second. *)
C13_Witness ==
    \E d \in issued :
       /\ LoginOfRegistered(d)
       /\ now = BuiltAt(d) + 1
       /\ now \div TicksPerSecond = BuiltAt(d) \div TicksPerSecond
       /\ \A t \in resp.tokens : t.AccessToken = d.AccessToken

----------------------------------------------------------------------------
(* Claims about refresh *)

(* A refresh call that succeeded, with the token it was given. *)
Refreshed(tok) ==
    /\ resp.op = "refresh" /\ resp.status = 200
    /\ resp.input = {tok}

ExpClaim(tok) == tok.payload["exp"]

(* C14 as stated: the access token of a refresh that succeeds at time t    *)
(* expires at t plus the access lifetime, and the expires_at of the        *)
(* response is that same instant.                                          *)
C14_RefreshExpiryExact ==
    (resp.op = "refresh" /\ resp.status = 200) =>
       \A d \in resp.tokens :
          /\ ExpClaim(d.AccessToken) = now + AccessTokenExpiry
          /\ d.ExpiresAt = ExpClaim(d.AccessToken)

(* C14 amended: the expires_at of the response is t plus the access        *)
(* lifetime, the expiry claim of the access token is that instant cut to   *)
(* the whole second, and neither depends on the expiry of the presented    *)
(* refresh token or on the tokens issued before.                           *)
C14_RefreshExpiryFromNow ==
    (resp.op = "refresh" /\ resp.status = 200) =>
       \A d \in resp.tokens :
          /\ d.ExpiresAt = now + AccessTokenExpiry
          /\ ExpClaim(d.AccessToken)
               = (now + AccessTokenExpiry)
                   - ((now + AccessTokenExpiry) % TicksPerSecond)
          /\ d.ExpiresAt - ExpClaim(d.AccessToken) \in 0..(TicksPerSecond - 1)

(* A refresh at a half second, with a refresh token of an earlier second   *)
(* whose access token has already expired.                                 *)
C14_Witness ==
    \E e \in issued :
       /\ Refreshed(e.RefreshToken)
       /\ now % TicksPerSecond # 0
       /\ ExpClaim(e.AccessToken) <= now
       /\ \A d \in resp.tokens :
            /\ d.ExpiresAt # ExpClaim(d.AccessToken)
            /\ ExpClaim(d.AccessToken) # ExpClaim(e.AccessToken)


(* A refresh call made with the refresh token of the held pair d, while    *)
(* the server signs with the secret of that token and the user of the      *)
(* token is in the table.                                                  *)
RefreshWithHeld(d) ==
    /\ resp.op = "refresh"
    /\ resp.input = {d.RefreshToken}
    /\ d.RefreshToken.sig.key = secret
    /\ ByID(users, d.User.ID) # {}

(* C15: a refresh token stays usable: each refresh with it before its own  *)
(* expiry claim succeeds with a pair built at that time, each refresh at   *)
(* or after the expiry claim is rejected without tokens, and no refresh    *)
(* call changes anything the server keeps.                                 *)
C15_RefreshReusable ==
    /\ [](\A d \in issued : RefreshWithHeld(d) =>
            IF now < ExpClaim(d.RefreshToken)
            THEN /\ resp.status = 200
                 /\ resp.tokens = {TokenResponse(
                        CHOOSE u \in ByID(users, d.User.ID) : TRUE,
                        secret, now)}
                 /\ \A n \in resp.tokens :
                      /\ ValidateToken(n.AccessToken, secret, now).ok
                      /\ ExpClaim(n.RefreshToken)
                           >= ExpClaim(d.RefreshToken)
            ELSE /\ resp.status = 401
                 /\ resp.tokens = {})
    /\ [][resp'.op = "refresh" =>
            UNCHANGED <<users, nextID, reg, now, secret, issued>>]_vars

(* The held refresh token used in the last half second before its expiry,  *)
(* seconds after it was issued and after its access token ran out.         *)
C15_Witness ==
    \E d \in issued :
       /\ RefreshWithHeld(d)
       /\ resp.status = 200
       /\ now = ExpClaim(d.RefreshToken) - 1
       /\ now > BuiltAt(d) + AccessTokenExpiry

----------------------------------------------------------------------------
(* Tokens that outlive what the users table says: the role of the user is  *)
(* changed, or the row is deleted, while a client holds a token pair.      *)

(* A row of the users table deleted outside the API. *)
DeleteUser(id) ==
    /\ \E u \in users : u.ID = id
    /\ users' = {u \in users : u.ID # id}
    /\ resp' = NoResp
    /\ UNCHANGED <<nextID, reg, now, secret, issued, req, rt, content>>

NextStale ==
    \/ Tick
    \/ \E r \in LoginRequests : Login(r)
    \/ Keep
    \/ \E tok \in {d.RefreshToken : d \in issued} \cup {Forged} :
         RefreshToken({tok})
    \/ \E u \in users, role \in RoleIDs : SetRole(u.ID, role)
    \/ \E u \in users : DeleteUser(u.ID)
    \/ \E tok \in {d.AccessToken : d \in issued} :
         NewRequest(<<"Bearer", tok>>, AdminEditor)
    \/ AuthExtract
    \/ AuthValidate
    \/ RequireRole
    \/ Handler

SpecStale == InitToken /\ [][NextStale]_vars

(* A refresh with a token of the server that has not expired, whose user   *)
(* is no longer in the table.                                              *)
RefreshOfMissingUser(tok) ==
    /\ resp.op = "refresh"
    /\ resp.input = {tok}
    /\ tok.sig.key = secret
    /\ now < ExpClaim(tok)
    /\ ByID(users, UnmarshalRefreshClaims(tok.payload).UserID) = {}

(* What the client is told: the status and the message. *)
Told(r) == [status |-> r.status, message |-> r.message]

(* C16: a refresh for a user that is gone is answered as a refresh with a  *)
(* badly signed token and as a refresh with an expired token are: same     *)
(* status, same message, no tokens.                                        *)
C16_MissingUserSameError ==
    \A d \in issued : RefreshOfMissingUser(d.RefreshToken) =>
       /\ resp.tokens = {}
       /\ Told(resp) = Told(RefreshTokenResponse({Forged}, users, secret,
                                                 now))
       /\ Told(resp) = Told(RefreshTokenResponse({d.RefreshToken}, users,
                               secret, ExpClaim(d.RefreshToken)))

----------------------------------------------------------------------------
(* Claims about the errors of rejected tokens *)

(* The token does not parse under the secret of the server at this time:   *)
(* it is malformed, wrongly signed or expired.                             *)
Unparsable(tok) ==
    \/ tok.form # "jwt"
    \/ tok.sig.key # secret
    \/ tok.sig.over # tok.payload
    \/ ("exp" \in DOMAIN tok.payload /\ tok.payload["exp"] <= now)

(* C17: a wrongly signed, an expired and a malformed token get one and the *)
(* same answer, status and message, at the Auth gate and at refresh.       *)
C17_UniformRejection ==
    /\ \A v \in req.validated : ~v.ok =>
          /\ req.status = 401
          /\ req.error = "invalid or expired token"
    /\ resp.op = "refresh" =>
          \A tok \in resp.input : Unparsable(tok) =>
             /\ resp.status = 401
             /\ resp.message
                  = RefreshTokenResponse({Garbage}, users, secret,
                                         now).message

----------------------------------------------------------------------------
(* Claims about validation and the users table *)

(* The gate has validated the access token of the held pair d. *)
ValidatedHeld(d, v) ==
    /\ req.token = {d.AccessToken}
    /\ v \in req.validated
    /\ d.AccessToken.sig.key = secret

(* C18: validation looks at the token, the secret and the time only: an    *)
(* access token is accepted exactly until its expiry claim whatever has    *)
(* become of its user in the table, it yields the id and the role it was   *)
(* issued with, and validating changes nothing in the table.               *)
C18_ValidateStateless ==
    /\ [](\A d \in issued : \A v \in req.validated :
            ValidatedHeld(d, v) =>
              /\ v.ok <=> v.at < ExpClaim(d.AccessToken)
              /\ v.ok => /\ v.claims.UserID = d.User.ID
                         /\ v.claims.Role = d.User.Role
                         /\ req.ctx = {[userID |-> d.User.ID,
                                        userRole |-> d.User.Role]})
    /\ [][req'.validated # req.validated =>
            UNCHANGED <<users, nextID, reg, secret, issued>>]_vars

(* An admin token accepted after the user was demoted. *)
C18_Witness ==
    \E d \in issued : \E v \in req.validated :
       /\ ValidatedHeld(d, v)
       /\ v.ok
       /\ v.claims.Role = "admin"
       /\ \E u \in users : u.ID = d.User.ID /\ u.RoleID = RoleUser

(* A token accepted after its user was deleted. *)
C18_WitnessDeleted ==
    \E d \in issued : \E v \in req.validated :
       /\ ValidatedHeld(d, v)
       /\ v.ok
       /\ users = {}

----------------------------------------------------------------------------
(* Claims about the Authorization header *)

(* The header is absent or empty, or is not two parts of which the first   *)
(* is the word bearer in some case.                                        *)
MalformedHeader(h) ==
    \/ h = <<>>
    \/ Len(h) # 2
    \/ h[1] \notin {"Bearer", "bearer"}

(* C19: a request behind Auth with such a header is answered 401 by Auth   *)
(* itself: no token is validated, the chain is aborted, nothing after Auth *)
(* runs and neither userID nor userRole is attached.                       *)
C19_MalformedHeaderRejected ==
    (req.state \notin {"none", "Unauthenticated"}
       /\ MalformedHeader(req.header)) =>
         /\ req.state = "Rejected"
         /\ req.status = 401
         /\ req.error \in {"authorization header is required",
                           "authorization header format must be Bearer {token}"}
         /\ req.aborted
         /\ req.token = {}
         /\ req.validated = {}
         /\ req.ctx = {}
         /\ req.ran = {}

(* Two parts, but another scheme. *)
C19_Witness ==
    /\ req.state = "Rejected"
    /\ Len(req.header) = 2 /\ req.header[1] = "Basic"
    /\ req.validated = {}
    /\ req.aborted

----------------------------------------------------------------------------
(* AuthService.ChangePassword (auth.go:247-262): a service method that no  *)
(* route calls; its outcome is the error it returns.                       *)

(* tx.Statement.Changed("Password") inside DB.Save(&user): gorm compares   *)
(* the value being saved with the model of the statement, and under Save   *)
(* both are the same struct.                                               *)
SaveChanged == FALSE

(* BeforeUpdate: the password is hashed when the statement changes it and  *)
(* 0 < len < 60.                                                           *)
BeforeUpdate(u, changed) ==
    IF changed /\ StoredLen(u.Password) > 0
               /\ StoredLen(u.Password) < BcryptLen
    THEN [u EXCEPT !.Password = [hashed |-> TRUE, pw |-> u.Password.pw]]
    ELSE u

(* DB.Save of a row that has its primary key: all columns are written. *)
Save(U, u) ==
    LET row == BeforeUpdate(u, SaveChanged)
    IN {IF x.ID = u.ID THEN row ELSE x : x \in U}

(* A change that does not look at the current password. *)
ChangePasswordServiceNoVerify(U, userID, currentPassword, newPassword) ==
    IF ByID(U, userID) = {}
    THEN [err |-> "record not found", users |-> U]
    ELSE LET user == CHOOSE u \in ByID(U, userID) : TRUE
         IN [err |-> "",
             users |-> Save(U, [user EXCEPT !.Password =
                            [hashed |-> FALSE, pw |-> newPassword]])]

ChangePasswordService(U, userID, currentPassword, newPassword) ==
    IF ByID(U, userID) = {}
    THEN [err |-> "record not found", users |-> U]
    ELSE LET user == CHOOSE u \in ByID(U, userID) : TRUE
         IN IF ~CheckPassword(user, currentPassword)
            THEN [err |-> "current password is incorrect", users |-> U]
            ELSE [err |-> "",
                  users |-> Save(U, [user EXCEPT !.Password =
                                 [hashed |-> FALSE, pw |-> newPassword]])]

ChangePassword(userID, currentPassword, newPassword) ==
    LET res == ChangePasswordService(users, userID, currentPassword,
                                     newPassword)
    IN /\ users' = res.users
       /\ resp' = [ErrorResponse("changePassword", 0, "", res.err)
                   EXCEPT !.input = [UserID |-> userID,
                                     Current |-> currentPassword,
                                     New |-> newPassword]]
       /\ req' = Recycle(req)
       /\ UNCHANGED <<nextID, reg, now, secret, issued, rt, content>>

(* Two users that registered earlier: the password of the first was        *)
(* hashed, the second registered with any password Register admits.        *)
Registered(id, email, phone, pw) ==
    BeforeCreate(NewUser([Name |-> "n", Email |-> email, Phone |-> phone,
                          Password |-> pw], id))

InitPassword ==
    /\ \E pw \in {q \in Passwords : q.len >= MinPasswordLen} :
         users = {Registered(1, "e1", "p1", [txt |-> "six", len |-> 6]),
                  Registered(2, "e2", "p2", pw)}
    /\ nextID = 3
    /\ reg = [p \in Procs |-> IdleReg]
    /\ now = 0
    /\ secret = "k1"
    /\ issued = {}
    /\ req = NoReq
    /\ resp = NoResp
    /\ rt = NoRoundTrip
    /\ ContentInit

(* Ids handed to ChangePassword: the two users and nobody's id. *)
PasswordUserIDs == {1, 2, 3}

NextPassword ==
    \/ \E id \in PasswordUserIDs, cur \in Passwords, new \in Passwords :
         ChangePassword(id, cur, new)
    \/ \E r \in LoginRequests : Login(r)

SpecPassword == InitPassword /\ [][NextPassword]_vars

(* C20: ChangePassword verifies the current password before it writes:     *)
(* for an id without a user it returns the not-found error, for a current  *)
(* password that does not verify against the stored digest it returns the  *)
(* wrong-password error, and in both cases no stored password, of that     *)
(* user or of another, changes; when a password does change it is that of  *)
(* the named user alone, whose current password verified.                  *)
C20_ChangePasswordVerifiesFirst ==
    [][resp'.op = "changePassword" =>
         LET in == resp'.input
             named == {u \in users : u.ID = in.UserID}
         IN /\ named = {} =>
                 /\ resp'.error = "record not found"
                 /\ users' = users
            /\ \A u \in named :
                 ~(u.Password.hashed /\ u.Password.pw = in.Current) =>
                    /\ resp'.error = "current password is incorrect"
                    /\ users' = users
            /\ users' # users =>
                 /\ resp'.error = ""
                 /\ \E u \in named :
                      u.Password.hashed /\ u.Password.pw = in.Current
                 /\ \A u \in users : u.ID # in.UserID => u \in users']_vars

(* The wrong current password for a user whose password is hashed. *)
C20_Witness ==
    /\ resp.op = "changePassword"
    /\ resp.error = "current password is incorrect"
    /\ \E u \in users : /\ u.ID = resp.input.UserID
                        /\ u.Password.hashed
                        /\ u.Password.pw # resp.input.Current

(* The call for an id that has no user. *)
C20_WitnessNotFound ==
    /\ resp.op = "changePassword"
    /\ resp.error = "record not found"
    /\ resp.input.UserID = 3


(* C27: after ChangePassword returned without error the stored password of *)
(* the user is a digest of the new password, not the plaintext: a login    *)
(* with the new password succeeds and one with the former password, when   *)
(* it is another one, fails.                                               *)
C27_ChangedPasswordHashed ==
    (resp.op = "changePassword" /\ resp.error = "") =>
       \E u \in users :
          /\ u.ID = resp.input.UserID
          /\ u.Password.hashed
          /\ u.Password.pw = resp.input.New
          /\ LoginResponse([Phone |-> u.Phone, Password |-> resp.input.New],
                           users, secret, now).status = 200
          /\ resp.input.Current # resp.input.New =>
               LoginResponse([Phone |-> u.Phone,
                              Password |-> resp.input.Current],
                             users, secret, now).status = 401

----------------------------------------------------------------------------
(* Claims about the kind of token refresh takes *)

(* C28: refresh rejects an access token: a refresh call given the access   *)
(* token of a pair the server issued never returns a new pair.             *)
C28_RefreshRejectsAccessToken ==
    \A d \in issued :
       (resp.op = "refresh" /\ resp.input = {d.AccessToken}) =>
          /\ resp.status # 200
          /\ resp.tokens = {}

----------------------------------------------------------------------------
(* GET /api/auth/me: AuthController.Routes registers Me on the /auth group *)
(* like register, login and refresh, and main registers the auth routes    *)
(* before it creates the Auth middleware: the chain is the handler alone.  *)

MeChain == <<"Me">>

NewMeRequest(h) ==
    /\ Current(req) = "none"
    /\ req' = [NoReq EXCEPT !.state = "Unauthenticated", !.header = h,
                            !.chain = MeChain, !.idx = 1]
    /\ resp' = NoResp
    /\ UNCHANGED <<users, nextID, reg, now, secret, issued, rt, content>>

(* AuthController.Me (auth_controller.go:127-147). *)
MeResponse(c, U) ==
    IF c.ctx = {}
    THEN ErrorResponse("me", 401, "User not authenticated", "")
    ELSE LET id == (CHOOSE x \in c.ctx : TRUE).userID
         IN IF ByID(U, id) = {}
            THEN ErrorResponse("me", 500, "record not found", "")
            ELSE SuccessResponse("me", 200, "User retrieved successfully",
                                 UserResponse(CHOOSE u \in ByID(U, id) : TRUE))

Me ==
    /\ Current(req) = "Me"
    /\ resp' = [MeResponse(req, users) EXCEPT !.input = req.header]
    /\ req' = [req EXCEPT !.idx = @ + 1,
                          !.status = MeResponse(req, users).status,
                          !.ran = @ \cup {"Me"}]
    /\ UNCHANGED <<users, nextID, reg, now, secret, issued, rt, content>>

(* A client that logged in at start-up asks who it is, with any header. *)
NextMe ==
    \/ Tick
    \/ \E h \in Headers : NewMeRequest(h)
    \/ Me

SpecMe == InitRole /\ [][NextMe]_vars

(* The header carries an access token the server issued, signed with its   *)
(* secret and not expired.                                                 *)
CarriesValidAccessToken(h) ==
    /\ Len(h) = 2
    /\ h[1] \in {"Bearer", "bearer"}
    /\ \E d \in issued : /\ h[2] = d.AccessToken
                         /\ d.AccessToken.sig.key = secret
                         /\ now < ExpClaim(d.AccessToken)

(* C22: GET /auth/me answers a request with a valid access token with 200  *)
(* and the id, name, email, phone and role of the user of the token, and   *)
(* any other request with 401.                                             *)
C22_MeReturnsCurrentUser ==
    resp.op = "me" =>
       IF CarriesValidAccessToken(resp.input)
       THEN /\ resp.status = 200
            /\ \E u \in users :
                 /\ u.ID = UnmarshalClaims(resp.input[2].payload).UserID
                 /\ resp.tokens = {UserResponse(u)}
       ELSE resp.status = 401

----------------------------------------------------------------------------
(* ResumeController: the skills section stands for the eight sections, the *)
(* handlers of which differ in the model type only.  ResumeController      *)
(* .Routes registers every method on the plain /resume group and main      *)
(* passes it no middleware: the chain of each route is its handler.        *)

SkillNames == {"go", "tla"}

(* Request bodies: a skill, or JSON that does not bind. *)
SkillBodies == SkillNames \cup {"{"}

ResumeResponse(method, status, h) ==
    [op |-> "resume", status |-> status, message |-> "", error |-> "",
     tokens |-> {}, input |-> [method |-> method, header |-> h]]

GetSkills(h) ==
    /\ resp' = ResumeResponse("GET", 200, h)
    /\ req' = Recycle(req)
    /\ UNCHANGED <<users, nextID, reg, now, secret, issued, rt, content>>

CreateSkill(h, body) ==
    /\ resume.next <= MaxSkills
    /\ IF body \notin SkillNames
       THEN /\ resp' = ResumeResponse("POST", 400, h)
            /\ UNCHANGED resume
       ELSE /\ resume' = [rows |-> resume.rows
                                     \cup {[ID |-> resume.next,
                                            Name |-> body]},
                          next |-> resume.next + 1]
            /\ resp' = ResumeResponse("POST", 201, h)
    /\ req' = Recycle(req)
    /\ UNCHANGED <<users, nextID, reg, now, secret, issued, rt,
                   logger, projects, categories, calls, page>>

UpdateSkill(h, id, body) ==
    /\ IF ~\E s \in resume.rows : s.ID = id
       THEN /\ resp' = ResumeResponse("PUT", 404, h)
            /\ UNCHANGED resume
       ELSE IF body \notin SkillNames
       THEN /\ resp' = ResumeResponse("PUT", 400, h)
            /\ UNCHANGED resume
       ELSE /\ resume' = [resume EXCEPT !.rows =
                            {IF s.ID = id THEN [s EXCEPT !.Name = body]
                             ELSE s : s \in resume.rows}]
            /\ resp' = ResumeResponse("PUT", 200, h)
    /\ req' = Recycle(req)
    /\ UNCHANGED <<users, nextID, reg, now, secret, issued, rt,
                   logger, projects, categories, calls, page>>

DeleteSkill(h, id) ==
    /\ IF ~\E s \in resume.rows : s.ID = id
       THEN /\ resp' = ResumeResponse("DELETE", 404, h)
            /\ UNCHANGED resume
       ELSE /\ resume' = [resume EXCEPT !.rows =
                            {s \in resume.rows : s.ID # id}]
            /\ resp' = ResumeResponse("DELETE", 200, h)
    /\ req' = Recycle(req)
    /\ UNCHANGED <<users, nextID, reg, now, secret, issued, rt,
                   logger, projects, categories, calls, page>>

(* A client that logged in at start-up, with any role, and anybody else    *)
(* call the skills routes with any Authorization header.                   *)
NextResume ==
    \/ Tick
    \/ \E h \in Headers : GetSkills(h)
    \/ \E h \in Headers, body \in SkillBodies : CreateSkill(h, body)
    \/ \E h \in Headers, id \in 1..MaxSkills, body \in SkillBodies :
         UpdateSkill(h, id, body)
    \/ \E h \in Headers, id \in 1..MaxSkills : DeleteSkill(h, id)

SpecResume == InitRole /\ [][NextResume]_vars

(* The header carries a valid access token with role admin. *)
CarriesAdminToken(h) ==
    /\ CarriesValidAccessToken(h)
    /\ UnmarshalClaims(h[2].payload).Role = "admin"

(* C21: resume data is created, updated or deleted only by a request that  *)
(* carries a valid access token with role admin.                           *)
C21_ResumeWritesAdminOnly ==
    [][resume' # resume =>
         /\ resp'.op = "resume"
         /\ CarriesAdminToken(resp'.input.header)]_vars

----------------------------------------------------------------------------
(* middleware.RequestLogger (logger.go).  The constructor opens the file   *)
(* named after the day it runs on, defers file.Close() and returns the     *)
(* handler: when main has it, the file in the io.MultiWriter is closed.    *)
(* The handler writes one entry after c.Next() for every request.          *)

RECURSIVE Entries(_, _)
Entries(f, d) == IF d < 0 THEN 0 ELSE f[d] + Entries(f, d - 1)

(* fmt.Fprint(multiWriter, logEntry): io.MultiWriter writes to the console *)
(* first and then to the file, where a write to a closed file fails and    *)
(* the error is dropped.                                                   *)
Fprint(l) ==
    [l EXCEPT !.console = @ + 1,
              !.files[l.file] = IF l.closed THEN @ ELSE @ + 1]

(* A request of any route, handled on the current day. *)
LogRequest ==
    /\ Entries(logger.handled, MaxDay) < MaxRequests
    /\ logger' = [Fprint(logger) EXCEPT !.handled[logger.day] = @ + 1]
    /\ resp' = NoResp
    /\ UNCHANGED <<users, nextID, reg, now, secret, issued, req, rt,
                   resume, projects, categories, calls, page>>

(* Midnight passes while the process runs. *)
NextDay ==
    /\ logger.day < MaxDay
    /\ logger' = [logger EXCEPT !.day = @ + 1]
    /\ resp' = NoResp
    /\ UNCHANGED <<users, nextID, reg, now, secret, issued, req, rt,
                   resume, projects, categories, calls, page>>

NextLog ==
    \/ LogRequest
    \/ NextDay

SpecLog == Init /\ [][NextLog]_vars

(* C23: every request handled has exactly one entry on the console and one *)
(* in the log file of the day on which it was handled.                     *)
C23_OneEntryPerRequest ==
    /\ logger.console = Entries(logger.handled, MaxDay)
    /\ \A d \in Days : logger.files[d] = logger.handled[d]

----------------------------------------------------------------------------
(* ProjectService (project.go) and models.Project.  BlogService (blog.go)  *)
(* and models.BlogPost are the same code with the names changed; the       *)
(* projects stand for both.                                                *)

Titles == {"My App", "my app", "Zione"}

(* strings.ToLower(strings.ReplaceAll(title, " ", "-")) *)
TitleSlug(title) ==
    CASE title = "My App" -> "my-app"
      [] title = "my app" -> "my-app"
      [] title = "Zione" -> "zione"
      [] OTHER -> title

(* Unix time of the start of the model's clock, and time.Now().Unix(). *)
Epoch == 1700000000

Unix(t) == Epoch + (t \div TicksPerSecond)

MaxRune == 1114111

(* string(n) of an int64: the UTF-8 text of the code point n, and of       *)
(* U+FFFD when n is not a valid code point.                                *)
RuneString(n) ==
    IF n \in 0..MaxRune /\ n \notin 55296..57343
    THEN <<"U+", n>> ELSE <<"U+", 65533>>

(* slug + "-" + string(time.Now().Unix()) *)
WithTimestamp(slug, t) == slug \o <<"-", RuneString(Unix(t))>>

(* A column with gorm's default:true: Create writes the default for the    *)
(* zero value.                                                             *)
DefaultTrue(b) == IF b = FALSE THEN TRUE ELSE b

(* The foreign key of projects.category_id, where the schema has it. *)
CategoryMissing(C, categoryID) ==
    C.constrained /\ categoryID \notin C.ids

SlugTaken(P, slug, id) ==
    \E p \in P.rows : p.Slug = slug /\ p.ID # id

(* ProjectService.CreateProject (project.go:93-148). *)
CreateProjectService(P, C, r, t) ==
    LET base == <<TitleSlug(r.Title)>>
        slug == IF SlugTaken(P, base, 0) THEN WithTimestamp(base, t)
                ELSE base
        project == [ID |-> P.next, Title |-> r.Title, Slug |-> slug,
                    CategoryID |-> r.CategoryID,
                    Published |-> DefaultTrue(r.Published)]
    IN IF SlugTaken(P, slug, 0)
       THEN [ok |-> FALSE, err |-> "Error 1062: Duplicate entry",
             projects |-> P]
       ELSE IF CategoryMissing(C, r.CategoryID)
       THEN [ok |-> FALSE, err |-> "Error 1452: foreign key constraint fails",
             projects |-> P]
       ELSE [ok |-> TRUE, err |-> "",
             projects |-> [rows |-> P.rows \cup {project},
                           next |-> P.next + 1]]

(* ProjectController.Create, for a request the gate admitted. *)
CreateProject(r) ==
    /\ projects.next <= MaxProjects
    /\ LET res == CreateProjectService(projects, categories, r, now)
       IN /\ projects' = res.projects
          /\ resp' = [op |-> "createProject",
                      status |-> IF res.ok THEN 201 ELSE 400,
                      message |-> IF res.ok
                                  THEN "Project created successfully"
                                  ELSE "Failed to create project",
                      error |-> res.err, tokens |-> {}, input |-> r]
    /\ req' = Recycle(req)
    /\ UNCHANGED <<users, nextID, reg, now, secret, issued, rt,
                   resume, logger, categories, calls, page>>

(* ProjectService.UpdateProject (project.go:218-311): Title "" and         *)
(* CategoryID 0 are members left out of the request, Published is a        *)
(* pointer: "nil" when left out, else "true" or "false".                   *)
UpdateProjectService(P, C, id, r, t) ==
    IF ~\E p \in P.rows : p.ID = id
    THEN [ok |-> FALSE, err |-> "project not found", projects |-> P]
    ELSE LET old == CHOOSE p \in P.rows : p.ID = id
             base == <<TitleSlug(r.Title)>>
             retitled == r.Title # "" /\ r.Title # old.Title
             slug == IF ~retitled THEN old.Slug
                     ELSE IF SlugTaken(P, base, id)
                     THEN WithTimestamp(base, t)
                     ELSE base
             new == [ID |-> id,
                     Title |-> IF retitled THEN r.Title ELSE old.Title,
                     Slug |-> slug,
                     CategoryID |-> IF r.CategoryID > 0 THEN r.CategoryID
                                    ELSE old.CategoryID,
                     Published |-> IF r.Published = "nil"
                                   THEN old.Published
                                   ELSE r.Published = "true"]
         IN IF SlugTaken(P, slug, id)
            THEN [ok |-> FALSE, err |-> "Error 1062: Duplicate entry",
                  projects |-> P]
            ELSE IF CategoryMissing(C, new.CategoryID)
            THEN [ok |-> FALSE,
                  err |-> "Error 1452: foreign key constraint fails",
                  projects |-> P]
            ELSE [ok |-> TRUE, err |-> "",
                  projects |-> [P EXCEPT !.rows =
                                  (P.rows \ {old}) \cup {new}]]

(* ProjectController.Update, for a request the gate admitted. *)
UpdateProject(id, r) ==
    /\ LET res == UpdateProjectService(projects, categories, id, r, now)
       IN /\ projects' = res.projects
          /\ resp' = [op |-> "updateProject",
                      status |-> IF res.ok THEN 200 ELSE 400,
                      message |-> IF res.ok
                                  THEN "Project updated successfully"
                                  ELSE "Failed to update project",
                      error |-> res.err, tokens |-> {},
                      input |-> [ID |-> id, Title |-> r.Title,
                                 CategoryID |-> r.CategoryID,
                                 Published |-> r.Published]]
    /\ req' = Recycle(req)
    /\ UNCHANGED <<users, nextID, reg, now, secret, issued, rt,
                   resume, logger, categories, calls, page>>


CreateProjectRequests ==
    [Title : Titles, CategoryID : {1}, Published : BOOLEAN]

UpdateProjectRequests ==
    [Title : Titles \cup {""}, CategoryID : {0},
     Published : {"nil", "true", "false"}]

(* One project category exists; editors create and update projects while   *)
(* the clock runs.                                                         *)
InitSlug ==
    /\ users = {}
    /\ nextID = 1
    /\ reg = [p \in Procs |-> IdleReg]
    /\ now = 0
    /\ secret = "k1"
    /\ issued = {}
    /\ req = NoReq
    /\ resp = NoResp
    /\ rt = NoRoundTrip
    /\ resume = [rows |-> {}, next |-> 1]
    /\ logger = NewLogger
    /\ projects = [rows |-> {}, next |-> 1]
    /\ categories = [ids |-> {1}, constrained |-> TRUE]
    /\ calls = NoCalls
    /\ page = NoPage

NextSlug ==
    \/ Tick
    \/ \E r \in CreateProjectRequests : CreateProject(r)
    \/ \E id \in 1..MaxProjects, r \in UpdateProjectRequests :
         UpdateProject(id, r)

SpecSlug == InitSlug /\ [][NextSlug]_vars

(* C24: no create fails, whatever titles were used before, and the stored  *)
(* slugs are pairwise distinct.                                            *)
C24_CreateNeverCollides ==
    /\ resp.op = "createProject" => resp.status = 201
    /\ \A p, q \in projects.rows : p.ID # q.ID => p.Slug # q.Slug

----------------------------------------------------------------------------
(* The public read routes of the projects: List, Get and GetBySlug are     *)
(* registered on the /projects group itself, the Auth middleware only on   *)
(* the sub-group of the writing routes, so their chain is the handler.     *)

(* Values of the published query parameter: absent, a boolean, junk. *)
PublishedQueries == {"", "true", "false", "x"}

(* The gin.Context as it reaches the handler of a public route. *)
PublicContext(h) ==
    [NoReq EXCEPT !.state = "Unauthenticated", !.header = h,
                  !.chain = <<"handler">>, !.idx = 1]

(* middleware.GetUserRole *)
GetUserRole(c) ==
    IF c.ctx = {} THEN "" ELSE (CHOOSE x \in c.ctx : TRUE).userRole

(* The published filter List hands to ListProjects (125-156). *)
PublishedFilter(c, q) ==
    IF GetUserRole(c) \in {"admin", "editor"} /\ q \in {"true", "false"}
    THEN q = "true"
    ELSE TRUE

ReadResponse(op, status, items, h, q) ==
    [op |-> op, status |-> status, message |-> "", error |-> "",
     tokens |-> items, input |-> [header |-> h, published |-> q]]

(* ProjectController.List with ProjectService.ListProjects: the rows of    *)
(* all pages.                                                              *)
ListProjects(h, q) ==
    /\ resp' = ReadResponse("listProjects", 200,
                 {p \in projects.rows :
                    p.Published = PublishedFilter(PublicContext(h), q)},
                 h, q)
    /\ req' = Recycle(req)
    /\ UNCHANGED <<users, nextID, reg, now, secret, issued, rt, content>>

(* ProjectController.Get with ProjectService.GetProjectByID. *)
GetProject(h, id) ==
    /\ resp' = LET found == {p \in projects.rows : p.ID = id}
               IN ReadResponse("getProject",
                               IF found = {} THEN 404 ELSE 200, found, h, "")
    /\ req' = Recycle(req)
    /\ UNCHANGED <<users, nextID, reg, now, secret, issued, rt, content>>

(* ProjectController.GetBySlug with ProjectService.GetProjectBySlug. *)
GetProjectBySlug(h, slug) ==
    /\ resp' = LET found == {p \in projects.rows : p.Slug = slug}
               IN ReadResponse("getProjectBySlug",
                               IF found = {} THEN 404 ELSE 200, found, h, "")
    /\ req' = Recycle(req)
    /\ UNCHANGED <<users, nextID, reg, now, secret, issued, rt, content>>

(* Requests that publish or unpublish a project. *)
PublishRequests ==
    [Title : {""}, CategoryID : {0}, Published : {"true", "false"}]

(* A client that logged in at start-up, with any role; one category. *)
InitPublic ==
    /\ \E role \in RoleIDs :
         /\ users = {SeedUser(role)}
         /\ issued = {TokenResponse(SeedUser(role), "k1", 0)}
    /\ nextID = 2
    /\ reg = [p \in Procs |-> IdleReg]
    /\ now = 0
    /\ secret = "k1"
    /\ req = NoReq
    /\ resp = NoResp
    /\ rt = NoRoundTrip
    /\ resume = [rows |-> {}, next |-> 1]
    /\ logger = NewLogger
    /\ projects = [rows |-> {}, next |-> 1]
    /\ categories = [ids |-> {1}, constrained |-> TRUE]
    /\ calls = NoCalls
    /\ page = NoPage

NextPublic ==
    \/ \E r \in CreateProjectRequests : CreateProject(r)
    \/ \E id \in 1..MaxProjects, r \in PublishRequests :
         UpdateProject(id, r)
    \/ \E h \in Headers, q \in PublishedQueries : ListProjects(h, q)
    \/ \E h \in Headers, id \in 1..MaxProjects : GetProject(h, id)
    \/ \E h \in Headers, p \in projects.rows : GetProjectBySlug(h, p.Slug)

SpecPublic == InitPublic /\ [][NextPublic]_vars

(* The header carries a valid access token with role admin or editor. *)
CarriesEditorToken(h) ==
    /\ CarriesValidAccessToken(h)
    /\ UnmarshalClaims(h[2].payload).Role \in {"admin", "editor"}

(* C25: the list answers a request with a valid admin or editor token and  *)
(* published=false with the unpublished projects, and any request of a     *)
(* user or without a token with published projects only.                   *)
C25_ListPublishedFilter ==
    resp.op = "listProjects" =>
       IF CarriesEditorToken(resp.input.header)
       THEN resp.input.published = "false" =>
               resp.tokens = {p \in projects.rows : ~p.Published}
       ELSE \A p \in resp.tokens : p.Published

(* C26: list, get by id and get by slug never return an unpublished        *)
(* project to a caller without a valid admin or editor token.              *)
C26_UnpublishedHidden ==
    (resp.op \in {"listProjects", "getProject", "getProjectBySlug"}
       /\ ~CarriesEditorToken(resp.input.header)) =>
          \A p \in resp.tokens : p.Published

----------------------------------------------------------------------------
(* CategoryService.DeleteProjectCategory (category.go:106-126): the load,  *)
(* the count of the projects of the category and the delete are three      *)
(* statements outside any transaction; other requests run between the      *)
(* count and the delete.  DeleteBlogCategory is the same code.             *)

Referenced(P, id) == \E p \in P.rows : p.CategoryID = id

CategoryResponse(status, err, id) ==
    [op |-> "deleteCategory", status |-> status,
     message |-> IF status = 204 THEN ""
                 ELSE "Failed to delete project category",
     error |-> err, tokens |-> {}, input |-> id]

(* The load and the count (106-123). *)
DeleteCategoryCheck(id) ==
    /\ calls.del = 0
    /\ IF id \notin categories.ids
       THEN /\ resp' = CategoryResponse(400, "category not found", id)
            /\ UNCHANGED calls
       ELSE IF Referenced(projects, id)
       THEN /\ resp' = CategoryResponse(400,
                 "category is used by projects and cannot be deleted", id)
            /\ UNCHANGED calls
       ELSE /\ resp' = NoResp
            /\ calls' = [del |-> id]
    /\ req' = Recycle(req)
    /\ UNCHANGED <<users, nextID, reg, now, secret, issued, rt,
                   resume, logger, projects, categories, page>>

(* database.DB.Delete(&category) (125): where the schema has the foreign   *)
(* key the database refuses to delete a referenced row.                    *)
DeleteCategoryRemove ==
    /\ calls.del # 0
    /\ IF categories.constrained /\ Referenced(projects, calls.del)
       THEN /\ resp' = CategoryResponse(400,
                 "Error 1451: foreign key constraint fails", calls.del)
            /\ UNCHANGED categories
       ELSE /\ resp' = CategoryResponse(204, "", calls.del)
            /\ categories' = [categories EXCEPT !.ids = @ \ {calls.del}]
    /\ calls' = NoCalls
    /\ req' = Recycle(req)
    /\ UNCHANGED <<users, nextID, reg, now, secret, issued, rt,
                   resume, logger, projects, page>>

CategoryIDs == {1, 2}

(* Two categories exist.  Whether the projects table carries the foreign   *)
(* key to them is a matter of the database the server was started on       *)
(* (AutoMigrate adds it where the tables and the engine allow it).         *)
InitCategory ==
    /\ users = {}
    /\ nextID = 1
    /\ reg = [p \in Procs |-> IdleReg]
    /\ now = 0
    /\ secret = "k1"
    /\ issued = {}
    /\ req = NoReq
    /\ resp = NoResp
    /\ rt = NoRoundTrip
    /\ resume = [rows |-> {}, next |-> 1]
    /\ logger = NewLogger
    /\ projects = [rows |-> {}, next |-> 1]
    /\ \E fk \in BOOLEAN :
         categories = [ids |-> CategoryIDs, constrained |-> fk]
    /\ calls = NoCalls
    /\ page = NoPage

NextCategory ==
    \/ \E r \in [Title : Titles, CategoryID : CategoryIDs,
                 Published : {TRUE}] : CreateProject(r)
    \/ \E id \in 1..MaxProjects,
          r \in [Title : {""}, CategoryID : {0} \cup CategoryIDs,
                 Published : {"nil"}] : UpdateProject(id, r)
    \/ \E id \in CategoryIDs : DeleteCategoryCheck(id)
    \/ DeleteCategoryRemove

SpecCategory == InitCategory /\ [][NextCategory]_vars

----------------------------------------------------------------------------
(* ProjectController.List (project_controller.go:125-186) and              *)
(* BlogController.List (category.go:416-477): the pagination metadata.     *)

MaxLimit == 3
MaxTotal == 5

(* strconv.Atoi accepts every integer text, zero and negatives included.   *)
PageValues == (0 - MaxLimit)..MaxLimit

Abs(n) == IF n < 0 THEN 0 - n ELSE n

(* Go's integer quotient truncates toward zero; b is not zero. *)
GoDiv(a, b) ==
    IF (a >= 0) = (b > 0) \/ a = 0
    THEN Abs(a) \div Abs(b)
    ELSE 0 - (Abs(a) \div Abs(b))

(* (total + int64(limit) - 1) / int64(limit): a division by zero panics    *)
(* (gin's Recovery turns the panic into a 500 with no body).               *)
TotalPages(total, limit) ==
    IF limit = 0
    THEN [panic |-> TRUE, total_pages |-> 0]
    ELSE [panic |-> FALSE, total_pages |-> GoDiv(total + limit - 1, limit)]

(* ListProjects counts the rows (total), computes the offset and reads the *)
(* page with Limit(limit).Offset(offset): gorm leaves a negative limit out *)
(* of the statement, and an OFFSET without a LIMIT is a statement the      *)
(* database may refuse (500 with the database's error).  List then builds  *)
(* the metadata.                                                           *)
Offset(pg, limit) == (pg - 1) * limit

ListPage ==
    /\ ~page.done
    /\ \E qerr \in IF page.limit < 0 /\ Offset(page.page, page.limit) > 0
                   THEN BOOLEAN ELSE {FALSE} :
       LET tp == TotalPages(page.total, page.limit)
           status == IF qerr \/ tp.panic THEN 500 ELSE 200
       IN
         /\ page' = [done |-> TRUE, page |-> page.page, limit |-> page.limit,
                     total |-> page.total,
                     offset |-> Offset(page.page, page.limit),
                     status |-> status,
                     total_pages |-> IF qerr THEN 0 ELSE tp.total_pages]
         /\ resp' = [op |-> "list", status |-> status,
                     message |-> IF status = 500 THEN ""
                                 ELSE "Projects retrieved successfully",
                     error |-> IF qerr THEN "database error" ELSE "",
                     tokens |-> {},
                     input |-> <<page.page, page.limit>>]
    /\ UNCHANGED <<users, nextID, reg, now, secret, issued, req, rt,
                   resume, logger, projects, categories, calls>>

(* One List request: its page and limit parameters and the number of rows  *)
(* the count finds.                                                        *)
InitPage ==
    /\ users = {}
    /\ nextID = 1
    /\ reg = [p \in Procs |-> IdleReg]
    /\ now = 0
    /\ secret = "k1"
    /\ issued = {}
    /\ req = NoReq
    /\ resp = NoResp
    /\ rt = NoRoundTrip
    /\ resume = [rows |-> {}, next |-> 1]
    /\ logger = NewLogger
    /\ projects = [rows |-> {}, next |-> 1]
    /\ categories = [ids |-> {}, constrained |-> TRUE]
    /\ calls = NoCalls
    /\ \E pg \in PageValues, lim \in PageValues, total \in 0..MaxTotal :
         page = [done |-> FALSE, page |-> pg, limit |-> lim, total |-> total]

NextPage == ListPage

SpecPage == InitPage /\ [][NextPage]_vars

(* C30: for every integer page and limit the List request answers 200 and  *)
(* total_pages is ceil(total/limit): the least non-negative number of      *)
(* pages of limit items that hold total items.                             *)
C30_TotalPagesIsCeil ==
    page.done =>
        /\ page.status = 200
        /\ page.total_pages >= 0
        /\ page.total_pages * page.limit >= page.total
        /\ page.total_pages > 0 =>
               (page.total_pages - 1) * page.limit < page.total

====
